---- MODULE Spec2Model ----
(***************************************************************************)
(* Model of the MetaAI client (src/metaai/index.ts) and of the command     *)
(* line loop that drives it (src/index.ts).                                *)
(*                                                                         *)
(* The state is the five string fields of one MetaAI instance, the record  *)
(* of the current (or last) call (which method, the fields at its entry,   *)
(* the requests it sent through the axios session, what it returned or     *)
(* that it threw) and the state of the command line loop.  Every method is *)
(* an async function: it runs up to its next await of the transport, and   *)
(* resumes when the response arrives.  The transport and the remote        *)
(* service are the environment: every response is chosen from a small set  *)
(* when it arrives.  One call is in flight at a time, as in src/index.ts,  *)
(* which awaits every call.  prompt(message) and sources() are called by   *)
(* the loop of src/index.ts; init(), set_access_token() and                *)
(* sources(fetch_id) are public too and are called by any user of the      *)
(* class.                                                                  *)
(***************************************************************************)
EXTENDS Integers, Sequences, FiniteSets, TLC

VARIABLES
    access_token,     \* MetaAI.access_token
    cookies,          \* MetaAI.cookies
    lsd,              \* MetaAI.lsd
    conversation_id,  \* MetaAI.conversation_id
    last_fetch_id,    \* MetaAI.last_fetch_id
    pc,               \* "idle", or the request whose response the call in flight awaits
    op,               \* the call in flight, or the last one: [name, caller, arg]
    entry,            \* the five fields as they were when that call was entered
    reqs,             \* the requests that call sent, in order, each with its status
    response,         \* the last response that call received
    ret,              \* what the last call returned, or that it threw
    cli,              \* the loop of src/index.ts: "running" or "crashed"
    console,          \* the lines printed since that call was entered
    tpc,              \* threadingID(): "idle", "loop" (inside while (true)) or "returned"
    result,           \* threadingID(): the local result, one character per element
    calls,            \* overlapping prompt() calls: of each its [pc, reqs, ret]
    started,          \* those calls, in the order they were entered
    parsed            \* the chat responses of those calls, in the order they arrived:
                      \* of each its call and the fetch identifier it holds

\* the state of a threadingID() call that is observed on its own
threading == <<tpc, result>>

\* the state of prompt() calls that overlap
overlap == <<calls, started, parsed>>

vars == <<access_token, cookies, lsd, conversation_id, last_fetch_id,
          pc, op, entry, reqs, response, ret, cli, console, tpc, result,
          calls, started, parsed>>

(***************************************************************************)
(* Bounds of the model.                                                    *)
(***************************************************************************)
\* longest chat response, in newline-delimited fragments
MaxFragments == 5
\* longest reference list of a sources response
MaxRefs == 2
\* number of distinct well-formed landing pages the service can serve
NumPages == 1
\* in one trial of threadingID(), the draws after the first for which Math.random()
\* gives any index; the draws after those give index 0
MaxVaried == 1

(***************************************************************************)
(* JavaScript values that are not strings of the service.                  *)
(***************************************************************************)
\* no response has arrived yet
NoResponse == [status |-> 0]
\* the value undefined, as it reads once a template or URLSearchParams formats it
Undefined == "undefined"
\* String.prototype.match found nothing: null
NoMatch == "<null>"
\* a field a request of that kind does not carry
NA == "<n/a>"

Statuses == {200, 500}

(***************************************************************************)
(* The session: the five fields of a MetaAI instance as one record.        *)
(***************************************************************************)
UUIDs == {"uuid-1", "uuid-2"}

Session ==
    [access_token |-> access_token, cookies |-> cookies, lsd |-> lsd,
     conversation_id |-> conversation_id, last_fetch_id |-> last_fetch_id]

\* field initialisers and the constructor
NewSession(uuid) ==
    [access_token |-> "", cookies |-> "", lsd |-> "",
     conversation_id |-> uuid, last_fetch_id |-> ""]

(***************************************************************************)
(* Return values.  kind is "true", "false", "value" (a reply string or a   *)
(* Sources object) or "throw" (the promise is rejected).                   *)
(***************************************************************************)
NoSources == [search_engine |-> NA, search_query |-> NA, references |-> <<>>]

RetTrue == [kind |-> "true", text |-> NA, sources |-> NoSources]
RetFalse == [kind |-> "false", text |-> NA, sources |-> NoSources]
RetThrow == [kind |-> "throw", text |-> NA, sources |-> NoSources]
RetText(t) == [kind |-> "value", text |-> t, sources |-> NoSources]
RetSources(src) == [kind |-> "value", text |-> NA, sources |-> src]
RetNone == [kind |-> "none", text |-> NA, sources |-> NoSources]

Result(s, r) == [s |-> s, ret |-> r]

(***************************************************************************)
(* threadingID(): 19 characters drawn from '1234567890', drawn again as a  *)
(* whole while the first one is '9' or '0'.  A string is the sequence of   *)
(* its characters.                                                         *)
(***************************************************************************)
\* line 35
characters == <<"1", "2", "3", "4", "5", "6", "7", "8", "9", "0">>

\* line 39: the loop bound
IdLength == 19

\* String.prototype.charAt, for an index inside the string
charAt(str, index) == str[index + 1]

\* line 41: the values of Math.floor(Math.random() * characters.length)
RandomIndexes == 0..(Len(characters) - 1)

\* mutant: only a leading '0' is rejected
Rejected_ZeroOnly(r) == charAt(r, 0) = "0"

\* line 45: the test that makes the loop continue
Rejected(r) == charAt(r, 0) = "9" \/ charAt(r, 0) = "0"

\* mutant: a rejected result is patched, its first character dropped
Restart_Patched(r) == IF r = <<>> THEN r ELSE Tail(r)

\* lines 34 and 37: every iteration of while (true) starts from an empty result
Restart(r) == <<>>

\* no threading identifier: the request carries none
NoId == <<>>

\* two of the identifiers threadingID() returns
ThreadingIDs ==
    {<<first>> \o [i \in 1..(IdLength - 1) |-> "1"] : first \in {"1", "8"}}

\* a request as it is sent: the parts of the session and of the arguments it carries
Request(kind, s, message, fetch_id) ==
    [kind |-> kind, status |-> 0,   \* 0: no response yet
     cookie |-> IF kind = "landing" THEN NA ELSE s.cookies,
     lsd |-> IF kind = "landing" THEN NA ELSE s.lsd,
     access_token |-> IF kind \in {"chat", "sources"} THEN s.access_token ELSE NA,
     conversation_id |-> IF kind = "chat" THEN s.conversation_id ELSE NA,
     message |-> message, fetch_id |-> fetch_id,
     offlineThreadingId |-> NoId]

(***************************************************************************)
(* init(): GET https://meta.ai/ and scrape four markers.                   *)
(* A landing page is [status, abra_csrf, js_datr, datr, lsd], each marker  *)
(* the first capture group of its regular expression, or NoMatch.          *)
(***************************************************************************)
GoodPage(i) ==
    [status |-> 200, abra_csrf |-> "csrf" \o ToString(i), js_datr |-> "js" \o ToString(i),
     datr |-> "datr" \o ToString(i), lsd |-> "lsd" \o ToString(i)]

LandingPages ==
    {GoodPage(i) : i \in 1..NumPages}
    \cup {[GoodPage(1) EXCEPT !.lsd = ""]}   \* (.*?) also matches the empty string
    \cup {[GoodPage(1) EXCEPT ![m] = NoMatch] : m \in {"abra_csrf", "js_datr", "datr", "lsd"}}
    \cup {[GoodPage(1) EXCEPT !.status = 500]}

\* response.data.match(re)[1]: indexing null throws a TypeError
MatchThrows(page) ==
    \E m \in {"abra_csrf", "js_datr", "datr", "lsd"} : page[m] = NoMatch

CookieString(page) ==
    "_js_datr=" \o page.js_datr \o "; abra_csrf=" \o page.abra_csrf
        \o "; datr=" \o page.datr \o "; lsd=" \o page.lsd

\* mutant: init() stores the cookies and forgets this.lsd
InitOp_NoLsd(s, page) ==
    IF page.status # 200 THEN Result(s, RetFalse)
    ELSE IF MatchThrows(page) THEN Result(s, RetThrow)
    ELSE Result([s EXCEPT !.cookies = CookieString(page)], RetTrue)

\* lines 75-88: init() from the response on
InitOp(s, page) ==
    IF page.status # 200 THEN Result(s, RetFalse)
    ELSE IF MatchThrows(page) THEN Result(s, RetThrow)
    ELSE Result([s EXCEPT !.cookies = CookieString(page), !.lsd = page.lsd], RetTrue)

(***************************************************************************)
(* set_access_token(): POST the terms-of-service mutation.                 *)
(* A token response is [status, auth, access_token]: auth says whether     *)
(* data.xab_abra_accept_terms_of_service.new_temp_user_auth exists, and    *)
(* access_token is that object's field (Undefined when it has none).       *)
(***************************************************************************)
TokenResponses ==
    {[status |-> 200, auth |-> TRUE, access_token |-> t] : t \in {"token-1", "", Undefined}}
    \cup {[status |-> 200, auth |-> FALSE, access_token |-> Undefined],
          [status |-> 500, auth |-> FALSE, access_token |-> Undefined]}

\* mutant: set_access_token() returns true whatever the status
SetAccessTokenOp_IgnoreStatus(s, tok) ==
    IF tok.status # 200 THEN Result(s, RetTrue)
    ELSE IF ~tok.auth THEN Result(s, RetThrow)
    ELSE Result([s EXCEPT !.access_token = tok.access_token], RetTrue)

\* lines 135-144: set_access_token() from the response on
SetAccessTokenOp(s, tok) ==
    IF tok.status # 200 THEN Result(s, RetFalse)
    ELSE IF ~tok.auth THEN Result(s, RetThrow)
    ELSE Result([s EXCEPT !.access_token = tok.access_token], RetTrue)

(***************************************************************************)
(* prompt(message): lazy init, lazy token, then the chat request.          *)
(* A chat response is [status, data], data the sequence response.data      *)
(* splits into at '\n'.  A fragment is [done, json, snippet, fetch_id]:    *)
(* done says whether it includes 'OVERALL_DONE'; json is "ok" when         *)
(* JSON.parse accepts it and data.node.bot_response_message exists,        *)
(* "nonode" when it parses but that path is missing, "garbage" when        *)
(* JSON.parse throws; snippet and fetch_id are the two fields read.        *)
(***************************************************************************)
Shapes == {"ok", "garbage", "nonode", "nosnippet", "nofetch"}

\* the fragment at position i of a response: its strings name its position
Fragment(i, done, shape) ==
    [done |-> done,
     json |-> IF shape \in {"garbage", "nonode"} THEN shape ELSE "ok",
     snippet |-> IF shape = "nosnippet" THEN Undefined ELSE "reply-" \o ToString(i),
     fetch_id |-> IF shape = "nofetch" THEN Undefined ELSE "fetch-" \o ToString(i)]

\* every placement of the marker over up to MaxFragments well-formed fragments
WellFormedData ==
    UNION {{[i \in 1..n |-> Fragment(i, marks[i], "ok")] : marks \in [1..n -> BOOLEAN]} :
               n \in 1..MaxFragments}

\* a malformed fragment with the marker, alone or after a well-formed one with the marker
MalformedData ==
    UNION {{<<Fragment(1, TRUE, shape)>>, <<Fragment(1, TRUE, "ok"), Fragment(2, TRUE, shape)>>} :
               shape \in Shapes \ {"ok"}}

ChatData == WellFormedData \cup MalformedData

ChatResponses ==
    {[status |-> 200, data |-> d] : d \in ChatData}
    \cup {[status |-> 500, data |-> <<Fragment(1, TRUE, "ok")>>]}

\* mutant: JSON.parse('') yields an object whose fields are missing instead of throwing
EmptyString_Parsed ==
    [done |-> FALSE, json |-> "ok", snippet |-> Undefined, fetch_id |-> Undefined]

\* what JSON.parse('') and a fragment that is no JSON stand for
EmptyString == [done |-> FALSE, json |-> "garbage", snippet |-> Undefined, fetch_id |-> Undefined]

\* the loop of lines 209-215, from index i on, llm_done being the value so far
RECURSIVE ScanDone(_, _, _)
ScanDone(response_arr, i, llm_done) ==
    IF i > Len(response_arr) THEN llm_done
    ELSE ScanDone(response_arr, i + 1,
                  IF response_arr[i].done THEN response_arr[i] ELSE llm_done)

\* mutant: the loop breaks at the first fragment with the marker
LlmDone_First(response_arr) ==
    IF \E i \in 1..Len(response_arr) : response_arr[i].done
    THEN response_arr[CHOOSE i \in 1..Len(response_arr) :
                          /\ response_arr[i].done
                          /\ \A j \in 1..(i - 1) : ~response_arr[j].done]
    ELSE EmptyString

\* lines 209-215: llm_done starts as '' and every fragment with the marker overwrites it
LlmDone(response_arr) == ScanDone(response_arr, 1, EmptyString)

\* mutant: a fetch identifier already stored is kept
ParseChat_KeepFetchId(s, data) ==
    LET llm_done == LlmDone(data)
    IN  IF llm_done.json # "ok" THEN Result(s, RetThrow)
        ELSE Result([s EXCEPT !.last_fetch_id =
                         IF @ = "" THEN llm_done.fetch_id ELSE @],
                    RetText(llm_done.snippet))

\* lines 207-225: select, parse, read the reply, store the fetch id
ParseChat(s, data) ==
    LET llm_done == LlmDone(data)
    IN  IF llm_done.json # "ok" THEN Result(s, RetThrow)
        ELSE Result([s EXCEPT !.last_fetch_id = llm_done.fetch_id],
                    RetText(llm_done.snippet))

\* mutant: the status of the chat response is not looked at
ChatOp_IgnoreStatus(s, chat) == ParseChat(s, chat.data)

\* lines 203-225: prompt() from the chat response on
ChatOp(s, chat) ==
    IF chat.status # 200 THEN Result(s, RetFalse)
    ELSE ParseChat(s, chat.data)

\* mutant: prompt() calls init() every time
NeedsInit_Always(s) == TRUE

\* lines 160-164 and 165-169: whether prompt calls init / set_access_token
NeedsInit(s) == s.cookies = ""
\* mutant: prompt() asks for the token on every call
NeedsToken_Always(s) == TRUE

\* mutant: prompt() never asks for the token
NeedsToken_Never(s) == FALSE

\* line 165
NeedsToken(s) == s.access_token = ""

(***************************************************************************)
(* sources(fetch_id?): POST the search-plugin query.                       *)
(* The argument is [given, id]; a sources response is [status, shape,      *)
(* searchResults], shape "ok" when data.message.searchResults exists.      *)
(***************************************************************************)
References ==
    {[link |-> "https://a.example", title |-> "A"],
     [link |-> "https://b.example", title |-> "B"]}

RefLists == UNION {[1..n -> References] : n \in 0..MaxRefs}

SourcesResponses ==
    {[status |-> 200, shape |-> "ok",
      searchResults |-> [search_engine |-> "BING", search_query |-> "query",
                         references |-> refs]] : refs \in RefLists}
    \cup {[status |-> st, shape |-> "nomessage",
           searchResults |-> [search_engine |-> Undefined, search_query |-> Undefined,
                              references |-> <<>>]] : st \in Statuses}

NoArg == [given |-> FALSE, id |-> Undefined]
FetchArgs == {NoArg, [given |-> TRUE, id |-> "fetch-1"], [given |-> TRUE, id |-> "fetch-x"]}

\* mutant: the argument is ignored
FetchIdUsed_AlwaysLast(s, arg) == s.last_fetch_id

\* lines 240-242
FetchIdUsed(s, arg) == IF ~arg.given THEN s.last_fetch_id ELSE arg.id

\* mutant: the references are collected in reverse order
RECURSIVE PushReferences_Reversed(_, _)
PushReferences_Reversed(references, n) ==
    IF n = 0 THEN <<>>
    ELSE <<[link |-> references[n].link, title |-> references[n].title]>>
         \o PushReferences_Reversed(references, n - 1)

\* lines 283-294: the references are pushed one by one, in order
RECURSIVE PushReferences(_, _)
PushReferences(references, n) ==
    IF n = 0 THEN <<>>
    ELSE Append(PushReferences(references, n - 1),
                [link |-> references[n].link, title |-> references[n].title])

BuildSources(searchResults) ==
    [search_engine |-> searchResults.search_engine,
     search_query |-> searchResults.search_query,
     references |-> PushReferences(searchResults.references,
                                   Len(searchResults.references))]

\* lines 277-296: sources() from the response on
SourcesOp(s, resp) ==
    IF resp.status # 200 THEN Result(s, RetFalse)
    ELSE IF resp.shape # "ok" THEN Result(s, RetThrow)
    ELSE Result(s, RetSources(BuildSources(resp.searchResults)))

(***************************************************************************)
(* The loop of src/index.ts around one call.                               *)
(***************************************************************************)
Messages == {"hello", "Sources"}

ToUpperCase(message) ==
    CASE message = "Sources" -> "SOURCES"
      [] message = "hello" -> "HELLO"
      [] OTHER -> message

\* lines 20-22
RECURSIVE ReferenceLines(_, _)
ReferenceLines(references, n) ==
    IF n = 0 THEN <<>>
    ELSE Append(ReferenceLines(references, n - 1),
                references[n].title \o " - " \o references[n].link)

\* lines 12-23: what one SOURCES iteration prints, given what sources() returned
SourcesLines(r) ==
    IF r.kind = "false" THEN <<"There was an error grabbing sources.">>
    ELSE <<"Search Engine: " \o r.sources.search_engine \o " | Query: "
              \o r.sources.search_query>>
         \o ReferenceLines(r.sources.references, Len(r.sources.references))

\* lines 27-29: what one prompt iteration prints, given what prompt() returned
PromptLines(r) ==
    <<IF r.kind = "false" THEN "false" ELSE r.text, "", "">>

\* a rejected promise is caught nowhere in the async function of lines 8-31: the
\* function ends there and no input is read any more
LoopAfter(name, r) ==
    IF r.kind = "throw"
    THEN /\ cli' = "crashed"
         /\ UNCHANGED console
    ELSE /\ cli' = "running"
         /\ console' = console \o (IF name = "prompt" THEN PromptLines(r)
                                    ELSE SourcesLines(r))

(***************************************************************************)
(* The steps of a call.                                                    *)
(***************************************************************************)
SetSession(s) ==
    /\ access_token' = s.access_token
    /\ cookies' = s.cookies
    /\ lsd' = s.lsd
    /\ conversation_id' = s.conversation_id
    /\ last_fetch_id' = s.last_fetch_id

\* the call sends a request and awaits its response
Await(s, q, request) ==
    /\ SetSession(s)
    /\ reqs' = Append(q, request)
    /\ pc' = request.kind
    /\ ret' = RetNone
    /\ UNCHANGED <<threading, overlap>>

\* the call is entered
Enter(name, caller, arg) ==
    /\ pc = "idle"
    /\ cli = "running"
    /\ op' = [name |-> name, caller |-> caller, arg |-> arg]
    /\ entry' = Session
    /\ response' = NoResponse
    /\ console' = IF caller = "cli" /\ name = "prompt" THEN <<"">> ELSE <<>>   \* line 25
    /\ UNCHANGED cli

\* the call returns r, or throws, to its caller
Return(s, q, r) ==
    /\ SetSession(s)
    /\ reqs' = q
    /\ pc' = "idle"
    /\ ret' = r
    /\ IF op.caller = "cli" THEN LoopAfter(op.name, r) ELSE UNCHANGED <<cli, console>>
    /\ UNCHANGED <<op, entry>>
    /\ UNCHANGED <<threading, overlap>>

\* the response to the last request sent has arrived
Answered(q, status) == [q EXCEPT ![Len(q)].status = status]

\* mutant: every prompt() starts a conversation of its own
PromptSendChat_NewConversation(s, q, message) ==
    \E id \in ThreadingIDs :
        Await([s EXCEPT !.conversation_id = CHOOSE u \in UUIDs : u # s.conversation_id], q,
              [Request("chat", [s EXCEPT !.conversation_id =
                                    CHOOSE u \in UUIDs : u # s.conversation_id], message, NA)
                  EXCEPT !.offlineThreadingId = id])

\* lines 170-201: prompt() sends the chat request, with a new threading identifier
PromptSendChat(s, q, message) ==
    \E id \in ThreadingIDs :
        Await(s, q, [Request("chat", s, message, NA) EXCEPT !.offlineThreadingId = id])

\* lines 165-169, up to the await inside set_access_token()
PromptAfterInit(s, q, message) ==
    IF NeedsToken(s) THEN Await(s, q, Request("token", s, NA, NA))
    ELSE PromptSendChat(s, q, message)

\* mutant: prompt() asks for the token without looking at the cookies
PromptStart_TokenFirst(s, q, message) == PromptAfterInit(s, q, message)

\* lines 160-164, up to the await inside init()
PromptStart(s, q, message) ==
    IF NeedsInit(s) THEN Await(s, q, Request("landing", s, NA, NA))
    ELSE PromptAfterInit(s, q, message)

PromptCall(message, caller) ==
    /\ Enter("prompt", caller, [given |-> TRUE, id |-> message])
    /\ PromptStart(Session, <<>>, message)

\* mutant: sources() initialises the session first, as prompt() does
SourcesCall_LazyInit(arg, caller) ==
    /\ Enter("sources", caller, arg)
    /\ IF NeedsInit(Session)
       THEN Await(Session, <<>>, Request("landing", Session, NA, NA))
       ELSE Await(Session, <<>>,
                  Request("sources", Session, NA, FetchIdUsed(Session, arg)))

SourcesCall(arg, caller) ==
    /\ Enter("sources", caller, arg)
    /\ Await(Session, <<>>, Request("sources", Session, NA, FetchIdUsed(Session, arg)))

\* the prompt() calls that overlap
Callers == {1, 2}

(***************************************************************************)
(* The state machine.                                                      *)
(***************************************************************************)
Init ==
    /\ \E uuid \in UUIDs :
          /\ access_token = NewSession(uuid).access_token
          /\ cookies = NewSession(uuid).cookies
          /\ lsd = NewSession(uuid).lsd
          /\ conversation_id = NewSession(uuid).conversation_id
          /\ last_fetch_id = NewSession(uuid).last_fetch_id
          /\ entry = NewSession(uuid)
    /\ pc = "idle"
    /\ op = [name |-> "new", caller |-> "direct", arg |-> NoArg]
    /\ reqs = <<>>
    /\ response = NoResponse
    /\ ret = RetNone
    /\ cli = "running"
    /\ console = <<>>
    /\ tpc = "idle"
    /\ result = <<>>
    /\ calls = [c \in Callers |-> [pc |-> "new", reqs |-> <<>>, ret |-> RetNone]]
    /\ started = <<>>
    /\ parsed = <<>>

\* a caller of the class calls init()
init ==
    /\ Enter("init", "direct", NoArg)
    /\ Await(Session, <<>>, Request("landing", Session, NA, NA))

\* a caller of the class calls set_access_token()
set_access_token ==
    /\ Enter("set_access_token", "direct", NoArg)
    /\ Await(Session, <<>>, Request("token", Session, NA, NA))

\* a caller of the class calls sources(fetch_id)
sources ==
    \E arg \in FetchArgs :
        /\ arg.given
        /\ SourcesCall(arg, "direct")

\* src/index.ts, lines 10-12: the loop reads SOURCES and calls sources()
LoopSources ==
    \E message \in Messages :
        /\ ToUpperCase(message) = "SOURCES"
        /\ SourcesCall(NoArg, "cli")

\* src/index.ts, lines 10-26: the loop reads anything else and calls prompt(message)
LoopPrompt ==
    \E message \in Messages :
        /\ ToUpperCase(message) # "SOURCES"
        /\ PromptCall(message, "cli")

\* the landing page arrives: init() resumes at line 75, and prompt() after it
LandingResponse ==
    /\ pc = "landing"
    /\ \E page \in LandingPages :
          LET r == InitOp(Session, page)
              q == Answered(reqs, page.status)
          IN  /\ response' = page
              /\ IF op.name = "prompt" /\ r.ret.kind = "true"
                 THEN /\ PromptAfterInit(r.s, q, op.arg.id)
                      /\ UNCHANGED <<op, entry, cli, console>>
                 ELSE Return(r.s, q, r.ret)

\* the token response arrives: set_access_token() resumes at line 135, and prompt()
\* after it
TokenResponse ==
    /\ pc = "token"
    /\ \E tok \in TokenResponses :
          LET r == SetAccessTokenOp(Session, tok)
              q == Answered(reqs, tok.status)
          IN  /\ response' = tok
              /\ IF op.name = "prompt" /\ r.ret.kind = "true"
                 THEN /\ PromptSendChat(r.s, q, op.arg.id)
                      /\ UNCHANGED <<op, entry, cli, console>>
                 ELSE Return(r.s, q, r.ret)

\* the chat response arrives: prompt() resumes at line 203
ChatResponse ==
    /\ pc = "chat"
    /\ \E chat \in ChatResponses :
          /\ response' = chat
          /\ Return(ChatOp(Session, chat).s, Answered(reqs, chat.status),
                    ChatOp(Session, chat).ret)

\* the sources response arrives: sources() resumes at line 277
SourcesResponse ==
    /\ pc = "sources"
    /\ \E resp \in SourcesResponses :
          /\ response' = resp
          /\ Return(SourcesOp(Session, resp).s, Answered(reqs, resp.status),
                    SourcesOp(Session, resp).ret)

Next ==
    \/ init
    \/ set_access_token
    \/ sources
    \/ LoopSources
    \/ LoopPrompt
    \/ LandingResponse
    \/ TokenResponse
    \/ ChatResponse
    \/ SourcesResponse

Spec == Init /\ [][Next]_vars

(***************************************************************************)
(* threadingID() on its own, one step per draw.  The client is left as it  *)
(* was constructed.                                                        *)
(***************************************************************************)
client == <<access_token, cookies, lsd, conversation_id, last_fetch_id,
            pc, op, entry, reqs, response, ret, cli, console, overlap>>

\* line 33: threadingID() is called and enters while (true)
threadingID ==
    /\ tpc \in {"idle", "returned"}
    /\ tpc' = "loop"
    /\ result' = Restart(result)
    /\ UNCHANGED client

\* lines 40-42: one iteration of the for loop appends the character drawn
Draw(index) ==
    /\ tpc = "loop"
    /\ Len(result) < IdLength
    /\ result' = Append(result, charAt(characters, index))
    /\ index # 0 => Len(result) <= MaxVaried
    /\ UNCHANGED <<tpc, client>>

\* the first draw of a trial
DrawFirst == \E index \in RandomIndexes : Len(result) = 0 /\ Draw(index)

\* the first draw of a trial gives a character that line 45 lets pass
DrawFirstKept ==
    \E index \in RandomIndexes :
        /\ Len(result) = 0
        /\ ~Rejected(<<charAt(characters, index)>>)
        /\ Draw(index)

\* the 18 draws after the first
DrawNext == \E index \in RandomIndexes : Len(result) > 0 /\ Draw(index)

\* lines 45-47: continue, the result is dropped and the loop starts again
Continue ==
    /\ tpc = "loop"
    /\ Len(result) = IdLength
    /\ Rejected(result)
    /\ result' = Restart(result)
    /\ UNCHANGED <<tpc, client>>

\* line 49: return result
ThreadingReturn ==
    /\ tpc = "loop"
    /\ Len(result) = IdLength
    /\ ~Rejected(result)
    /\ tpc' = "returned"
    /\ UNCHANGED <<result, client>>

NextThreading ==
    \/ threadingID
    \/ DrawFirst
    \/ DrawNext
    \/ Continue
    \/ ThreadingReturn

SpecThreading == Init /\ [][NextThreading]_vars

\* Math.random() is fair: the loop goes on, and a first character that is kept is
\* drawn in the end
FairThreading ==
    /\ SpecThreading
    /\ WF_vars(DrawFirst)
    /\ WF_vars(DrawNext)
    /\ WF_vars(Continue)
    /\ WF_vars(ThreadingReturn)
    /\ SF_vars(DrawFirstKept)

(***************************************************************************)
(* prompt() calls that are not awaited by their caller: each runs up to    *)
(* its next await, and any of them resumes when its response arrives.      *)
(* They share the fields of the instance.                                  *)
(***************************************************************************)
single == <<pc, op, entry, reqs, response, ret, cli, console, threading>>

\* call c sends a request and awaits its response
CallAwaits(c, s, q, request) ==
    /\ SetSession(s)
    /\ calls' = [calls EXCEPT ![c] = [pc |-> request.kind, reqs |-> Append(q, request),
                                      ret |-> RetNone]]

\* call c returns r, or throws
CallReturns(c, s, q, r) ==
    /\ SetSession(s)
    /\ calls' = [calls EXCEPT ![c] = [pc |-> "done", reqs |-> q, ret |-> r]]

\* a request of an overlapping call: its kind and the status of its response
Sent(kind) == [kind |-> kind, status |-> 0]

\* lines 170-201, for call c
CallSendChat(c, s, q) == CallAwaits(c, s, q, Sent("chat"))

\* lines 165-169, for call c
CallAfterInit(c, s, q) ==
    IF NeedsToken(s) THEN CallAwaits(c, s, q, Sent("token"))
    ELSE CallSendChat(c, s, q)

\* lines 160-164, for call c
CallStart(c, s, q) ==
    IF NeedsInit(s) THEN CallAwaits(c, s, q, Sent("landing"))
    ELSE CallAfterInit(c, s, q)

\* no fetch identifier: the response has a status other than 200, or no fragment
\* with the marker, or the last fragment with the marker is not the JSON expected
NoFetch == "<none>"

\* the fetch identifier a chat response holds: the one of its last fragment with the
\* marker
FetchIdOf(chat) ==
    IF /\ chat.status = 200
       /\ \E i \in 1..Len(chat.data) : chat.data[i].done
    THEN LET last == CHOOSE i \in 1..Len(chat.data) :
                         /\ chat.data[i].done
                         /\ \A j \in (i + 1)..Len(chat.data) : ~chat.data[j].done
         IN  IF chat.data[last].json = "ok" THEN chat.data[last].fetch_id ELSE NoFetch
    ELSE NoFetch

\* line 159: prompt() is called while another call may be in flight
OverlapPrompt ==
    \E c \in Callers :
        /\ calls[c].pc = "new"
        /\ started' = Append(started, c)
        /\ CallStart(c, Session, <<>>)
        /\ UNCHANGED <<parsed, single>>

\* the landing page of a call arrives: lines 75-88, then 165
OverlapLanding ==
    \E c \in Callers :
        /\ calls[c].pc = "landing"
        /\ \E page \in LandingPages :
              LET r == InitOp(Session, page)
                  q == Answered(calls[c].reqs, page.status)
              IN  IF r.ret.kind = "true" THEN CallAfterInit(c, r.s, q)
                  ELSE CallReturns(c, r.s, q, r.ret)
        /\ UNCHANGED <<started, parsed, single>>

\* the token response of a call arrives: lines 135-144, then 170
OverlapToken ==
    \E c \in Callers :
        /\ calls[c].pc = "token"
        /\ \E tok \in TokenResponses :
              LET r == SetAccessTokenOp(Session, tok)
                  q == Answered(calls[c].reqs, tok.status)
              IN  IF r.ret.kind = "true" THEN CallSendChat(c, r.s, q)
                  ELSE CallReturns(c, r.s, q, r.ret)
        /\ UNCHANGED <<started, parsed, single>>

\* the chat response of a call arrives: lines 203-225
OverlapChat ==
    \E c \in Callers :
        /\ calls[c].pc = "chat"
        /\ \E chat \in ChatResponses :
              /\ parsed' = Append(parsed, [call |-> c, fetch_id |-> FetchIdOf(chat)])
              /\ CallReturns(c, ChatOp(Session, chat).s,
                             Answered(calls[c].reqs, chat.status),
                             ChatOp(Session, chat).ret)
        /\ UNCHANGED <<started, single>>

NextOverlap ==
    \/ OverlapPrompt
    \/ OverlapLanding
    \/ OverlapToken
    \/ OverlapChat

SpecOverlap == Init /\ [][NextOverlap]_vars

(***************************************************************************)
(* Properties.                                                             *)
(***************************************************************************)
Kinds(q) == [i \in 1..Len(q) |-> q[i].kind]

IsPrefix(a, b) == Len(a) <= Len(b) /\ \A i \in 1..Len(a) : a[i] = b[i]

\* the indexes of the fragments that contain the completion marker
MarkedIndexes(data) == {i \in 1..Len(data) : data[i].done}

LastMarked(data) ==
    CHOOSE i \in MarkedIndexes(data) : \A j \in MarkedIndexes(data) : j <= i

\* the call has ended and it was a prompt whose chat request was answered with 200
ChatAnswered ==
    /\ pc = "idle"
    /\ op.name = "prompt"
    /\ reqs[Len(reqs)].kind = "chat"
    /\ response.status = 200

\* C1 (as amended): a prompt entered with cookies and access_token empty sends the
\* landing request, then (only after a 200 landing response) the token request, then
\* (only after a 200 token response) the chat request, each at most once and in that
\* order; a prompt entered with cookies and access_token non-empty sends the chat
\* request and nothing else.
C1_LazyInit ==
    op.name = "prompt" =>
        /\ (entry.cookies = "" /\ entry.access_token = "") =>
              /\ Len(reqs) >= 1
              /\ IsPrefix(Kinds(reqs), <<"landing", "token", "chat">>)
              /\ \A i \in 2..Len(reqs) : reqs[i - 1].status = 200
        /\ (entry.cookies # "" /\ entry.access_token # "") => Kinds(reqs) = <<"chat">>

\* C1 witness: a prompt on a fresh client has sent the three requests in order and
\* returned the reply.
C1_Witness ==
    /\ pc = "idle"
    /\ op.name = "prompt"
    /\ entry.cookies = "" /\ entry.access_token = ""
    /\ Kinds(reqs) = <<"landing", "token", "chat">>
    /\ ret = RetText("reply-1")

\* C1 (original): the prompt that follows a prompt which did the whole lazy
\* initialisation and returned a reply sends neither the landing nor the token
\* request: its first request is the chat request.
C1_Original ==
    [][(/\ pc = "idle"
        /\ op.name = "prompt"
        /\ Kinds(reqs) = <<"landing", "token", "chat">>
        /\ ret.kind = "value" /\ ret.text # Undefined
        /\ op'.name = "prompt"
        /\ pc' # "idle") => pc' = "chat"]_vars

\* C2 (as amended): when a response with a non-200 status arrives, the call ends
\* there returning false, and that step changes no field; if the failing request was
\* the first one of the call, the fields equal their values at the entry of the call.
C2_FailingStep ==
    [][(pc # "idle" /\ response'.status # 200) =>
          /\ pc' = "idle"
          /\ ret' = RetFalse
          /\ Session' = Session
          /\ (Len(reqs) = 1 => Session' = entry)]_vars

\* C2 witness: a prompt on a fresh client got the landing page, was refused the token
\* and returned false, with the cookies of the landing page kept.
C2_Witness ==
    /\ pc = "idle"
    /\ op.name = "prompt"
    /\ Kinds(reqs) = <<"landing", "token">>
    /\ reqs[2].status = 500
    /\ ret = RetFalse
    /\ entry.cookies = "" /\ cookies # ""

\* C2 (original): after a call that ended on a non-200 response, the call returned
\* false and every field equals its value from before the call.
C2_Original ==
    (pc = "idle" /\ Len(reqs) > 0 /\ reqs[Len(reqs)].status # 200) =>
        (ret = RetFalse /\ Session = entry)

\* cookies and lsd are the ones init() made of one landing page
FromOnePage ==
    \E page \in LandingPages :
        /\ page.status = 200
        /\ ~MatchThrows(page)
        /\ cookies = CookieString(page)
        /\ lsd = page.lsd

TokenAfterCookies == access_token # "" => (cookies # "" /\ FromOnePage)

\* C3 (as amended): as long as set_access_token() is not called directly on a client
\* whose cookies are empty, access_token is non-empty only if cookies is non-empty and
\* cookies and lsd were set by init() from one landing page.
C3_TokenAfterCookies ==
    [][(TokenAfterCookies /\ ~(op'.name = "set_access_token" /\ entry'.cookies = ""))
          => TokenAfterCookies']_vars

\* C3 witness: set_access_token() was called directly on a client with cookies and
\* stored a token.
C3_Witness ==
    /\ pc = "idle"
    /\ op.name = "set_access_token"
    /\ entry.cookies # "" /\ entry.access_token = ""
    /\ ret = RetTrue
    /\ access_token = "token-1"

\* C3 (original): in every state, access_token is non-empty only if cookies and lsd
\* are non-empty.
C3_Original == access_token # "" => (cookies # "" /\ lsd # "")

\* C4: after a prompt that returned a reply, last_fetch_id is the fetch identifier of
\* the response; after a prompt that failed (at a lazy step, at the chat request or
\* while parsing) last_fetch_id is what it was before the call.
C4_Original ==
    (pc = "idle" /\ op.name = "prompt") =>
        IF ret.kind = "value" /\ ret.text # Undefined
        THEN last_fetch_id = response.data[LastMarked(response.data)].fetch_id
        ELSE last_fetch_id = entry.last_fetch_id

\* C5: sources() without an argument and with last_fetch_id empty sends no sources
\* request that carries an empty fetch identifier.
C5_Original ==
    ~(\E i \in 1..Len(reqs) :
        /\ op.name = "sources" /\ ~op.arg.given
        /\ reqs[i].kind = "sources"
        /\ reqs[i].fetch_id = "")

\* C6: the sources request carries last_fetch_id when sources() is called without an
\* argument and the argument when there is one, and last_fetch_id is not changed.
C6_FetchIdSent ==
    op.name = "sources" =>
        /\ Kinds(reqs) = <<"sources">>
        /\ reqs[1].fetch_id = (IF op.arg.given THEN op.arg.id ELSE entry.last_fetch_id)
        /\ last_fetch_id = entry.last_fetch_id

\* C6 witness: sources(fetch_id) was called with an identifier other than the
\* non-empty last_fetch_id, sent that identifier and returned the sources.
C6_Witness ==
    /\ pc = "idle"
    /\ op.name = "sources"
    /\ op.arg.given
    /\ entry.last_fetch_id \notin {"", op.arg.id}
    /\ reqs[1].fetch_id = op.arg.id
    /\ ret.kind = "value"

\* C7: no call ever throws, and the loop of src/index.ts never ends.
C7_Original == ret.kind # "throw" /\ cli = "running"

\* the 200 response lacks a marker or a field the call in flight reads from it
Incomplete(r, kind) ==
    CASE kind = "landing" -> MatchThrows(r)
      [] kind = "token" -> ~r.auth \/ r.access_token = Undefined
      [] kind = "chat" -> \/ LlmDone(r.data).json # "ok"
                          \/ LlmDone(r.data).snippet = Undefined
                          \/ LlmDone(r.data).fetch_id = Undefined
      [] kind = "sources" -> r.shape # "ok"

\* C8: a 200 response that lacks an expected marker or nested field changes no field.
C8_Original ==
    [][(pc # "idle" /\ response'.status = 200 /\ Incomplete(response', pc))
          => Session' = Session]_vars

\* C9: when a fragment of a 200 chat response contains the marker, the reply and
\* last_fetch_id are those of the last such fragment and of no other; if that
\* fragment cannot be parsed, no other fragment stands in for it.
C9_LastMarkedFragment ==
    (ChatAnswered /\ MarkedIndexes(response.data) # {}) =>
        LET f == response.data[LastMarked(response.data)]
        IN  IF f.json = "ok"
            THEN ret = RetText(f.snippet) /\ last_fetch_id = f.fetch_id
            ELSE ret = RetThrow /\ last_fetch_id = entry.last_fetch_id

\* C9 witness: only the third of five fragments contains the marker, and the reply
\* and last_fetch_id are those of the third fragment.
C9_Witness ==
    /\ ChatAnswered
    /\ Len(response.data) = 5
    /\ MarkedIndexes(response.data) = {3}
    /\ ret = RetText("reply-3")
    /\ last_fetch_id = "fetch-3"

\* C10: when no fragment of a 200 chat response contains the marker, prompt returns
\* no string (it ends by throwing) and last_fetch_id keeps the value it had at the
\* entry of the call.
C10_NoMarker ==
    (ChatAnswered /\ MarkedIndexes(response.data) = {}) =>
        (ret = RetThrow /\ last_fetch_id = entry.last_fetch_id)

\* C10 witness: a prompt with a fetch identifier stored before it got five fragments,
\* none with the marker.
C10_Witness ==
    /\ ChatAnswered
    /\ Len(response.data) = 5
    /\ MarkedIndexes(response.data) = {}
    /\ ret = RetThrow
    /\ last_fetch_id = "fetch-2"

\* C11: conversation_id never changes after the constructor, and every chat request
\* carries it: all chat requests of one client carry the same conversation_id.
C11_ConversationId ==
    [][/\ conversation_id' = conversation_id
       /\ \A i \in 1..Len(reqs') :
             reqs'[i].kind = "chat" => reqs'[i].conversation_id = conversation_id]_vars

\* C11 witness: after an earlier prompt that stored a fetch identifier, a prompt whose
\* chat request failed has carried the conversation_id of the client.
C11_Witness ==
    /\ pc = "idle"
    /\ op.name = "prompt"
    /\ entry.last_fetch_id = "fetch-1"
    /\ Kinds(reqs) = <<"chat">>
    /\ reqs[1].conversation_id = conversation_id
    /\ ret = RetFalse

\* C15: in a prompt, a landing or token request answered with a status other than
\* 200 (init() or set_access_token() returns false) is the last request of the
\* call: the call returns false, no chat request was sent and no threading
\* identifier generated, and after a failed init() no token request was sent.
C15_AbortsAtFailingStep ==
    op.name = "prompt" =>
        \A i \in 1..Len(reqs) :
            (reqs[i].kind \in {"landing", "token"} /\ reqs[i].status \notin {0, 200}) =>
                /\ i = Len(reqs)
                /\ pc = "idle"
                /\ ret = RetFalse
                /\ \A j \in 1..Len(reqs) :
                      reqs[j].kind # "chat" /\ reqs[j].offlineThreadingId = NoId
                /\ reqs[i].kind = "landing" => Kinds(reqs) = <<"landing">>

\* C15 witness: a prompt on a fresh client whose init() succeeded and whose token
\* request was answered 500 has returned false.
C15_Witness ==
    /\ pc = "idle"
    /\ op.name = "prompt"
    /\ entry.cookies = ""
    /\ Kinds(reqs) = <<"landing", "token">>
    /\ reqs[2].status = 500
    /\ ret = RetFalse

\* the landing page init() has just read: init() returned true to its caller, or
\* to prompt(), which went on to the token request
InitSucceeded ==
    \/ pc = "idle" /\ op.name = "init" /\ ret = RetTrue
    \/ pc = "token" /\ op.name = "prompt" /\ Kinds(reqs) = <<"landing", "token">>

\* C12 (as amended): after a successful init(), cookies is the four pairs
\* _js_datr, abra_csrf, datr and lsd, in that order, joined by "; ", and lsd is the
\* fourth token.
C12_Cookies ==
    InitSucceeded =>
        /\ cookies = "_js_datr=" \o response.js_datr \o "; abra_csrf=" \o response.abra_csrf
                        \o "; datr=" \o response.datr \o "; lsd=" \o response.lsd
        /\ lsd = response.lsd

\* C12 witness: init() was called, read the four markers and returned true.
C12_Witness ==
    /\ pc = "idle" /\ op.name = "init" /\ ret = RetTrue
    /\ cookies = "_js_datr=js1; abra_csrf=csrf1; datr=datr1; lsd=lsd1"
    /\ lsd = "lsd1"

\* C12 (original): after a successful init(), cookies is made of exactly the three
\* cookie values (abra_csrf, _js_datr, datr), and lsd is the fourth token.
C12_Original ==
    InitSucceeded =>
        /\ cookies = "_js_datr=" \o response.js_datr \o "; abra_csrf=" \o response.abra_csrf
                        \o "; datr=" \o response.datr
        /\ lsd = response.lsd

\* sources() has returned after a 200 response that holds the search results
SourcesSucceeded ==
    /\ pc = "idle"
    /\ op.name = "sources"
    /\ response.status = 200
    /\ response.shape = "ok"

\* C14: the Sources returned have as many references as the response, the i-th with
\* the link and title of the i-th reference of the response, and the search engine
\* and query of the response.
C14_ReferencesPreserved ==
    SourcesSucceeded =>
        /\ ret.kind = "value"
        /\ ret.sources.search_engine = response.searchResults.search_engine
        /\ ret.sources.search_query = response.searchResults.search_query
        /\ Len(ret.sources.references) = Len(response.searchResults.references)
        /\ \A i \in 1..Len(response.searchResults.references) :
              /\ ret.sources.references[i].link = response.searchResults.references[i].link
              /\ ret.sources.references[i].title = response.searchResults.references[i].title

\* C14 witness: a response with two different references, B before A, was returned
\* as two references, B before A.
C14_Witness ==
    /\ SourcesSucceeded
    /\ Len(ret.sources.references) = 2
    /\ ret.sources.references[1].title = "B"
    /\ ret.sources.references[2].title = "A"

\* C17 (as amended): a prompt entered with cookies set sends no landing request; a
\* prompt entered with cookies set and access_token empty sends the token request
\* first; a prompt entered with both set sends the chat request only; and no step of
\* a prompt changes cookies that are non-empty, or an access_token that is non-empty.
C17_Resumed ==
    [][/\ (op'.name = "prompt" /\ entry'.cookies # "") =>
             /\ \A i \in 1..Len(reqs') : reqs'[i].kind # "landing"
             /\ (entry'.access_token = "" => reqs'[1].kind = "token")
             /\ (entry'.access_token # "" => Kinds(reqs') = <<"chat">>)
       /\ (op'.name = "prompt" /\ cookies # "" => cookies' = cookies)
       /\ (op'.name = "prompt" /\ access_token # "" => access_token' = access_token)]_vars

\* C17 witness: a prompt entered with cookies set and access_token empty sent the
\* token request, then the chat request, and returned the reply.
C17_Witness ==
    /\ pc = "idle"
    /\ op.name = "prompt"
    /\ entry.cookies # "" /\ entry.access_token = ""
    /\ Kinds(reqs) = <<"token", "chat">>
    /\ ret = RetText("reply-1")

\* C17 (original): the prompt that follows a prompt which failed at the chat request
\* sends neither the landing nor the token request.
C17_Original ==
    [][(/\ pc = "idle"
        /\ op.name = "prompt"
        /\ reqs[Len(reqs)].kind = "chat"
        /\ reqs[Len(reqs)].status # 200
        /\ op'.name = "prompt"
        /\ pc' # "idle") => pc' = "chat"]_vars

\* C18 (as amended): every chat request is sent with cookies non-empty, and with
\* access_token non-empty unless the token request of the same call was answered 200
\* just before it (with an empty access_token).
C18_ChatWhenReady ==
    \A i \in 1..Len(reqs) :
        reqs[i].kind = "chat" =>
            /\ reqs[i].cookie # ""
            /\ \/ reqs[i].access_token # ""
               \/ i > 1 /\ reqs[i - 1].kind = "token" /\ reqs[i - 1].status = 200

\* C18 witness: a prompt on a fresh client has sent its chat request with the
\* cookies and the token its lazy steps stored.
C18_Witness ==
    /\ op.name = "prompt"
    /\ Kinds(reqs) = <<"landing", "token", "chat">>
    /\ reqs[3].cookie = "_js_datr=js1; abra_csrf=csrf1; datr=datr1; lsd=lsd1"
    /\ reqs[3].access_token = "token-1"

\* C18 (original): every chat request is sent with cookies and access_token both
\* non-empty.
C18_Original ==
    \A i \in 1..Len(reqs) :
        reqs[i].kind = "chat" => (reqs[i].cookie # "" /\ reqs[i].access_token # "")

\* C19: a sources() call sends the sources request and no other, with the cookies,
\* lsd and access_token the client had at its entry, and leaves the five fields as
\* they were, whatever the response.
C19_SourcesReadOnly ==
    op.name = "sources" =>
        /\ Session = entry
        /\ Kinds(reqs) = <<"sources">>
        /\ reqs[1].cookie = entry.cookies
        /\ reqs[1].lsd = entry.lsd
        /\ reqs[1].access_token = entry.access_token

\* C19 witness: sources() on a fresh client has sent its request with empty cookies,
\* lsd and access_token and got the sources back.
C19_Witness ==
    /\ pc = "idle"
    /\ op.name = "sources"
    /\ entry.cookies = "" /\ entry.lsd = "" /\ entry.access_token = ""
    /\ reqs[1].cookie = "" /\ reqs[1].lsd = "" /\ reqs[1].access_token = ""
    /\ ret.kind = "value"

\* the decimal digits
Digits == {"0", "1", "2", "3", "4", "5", "6", "7", "8", "9"}

C16_Terminates ==
    /\ (tpc = "loop") ~> (tpc = "returned")
    /\ [][/\ \/ result' = result
             \/ result' = <<>>
             \/ /\ Len(result') = Len(result) + 1
                /\ SubSeq(result', 1, Len(result)) = result
          /\ (tpc = "loop" /\ Len(result) = 19 /\ result[1] \in {"0", "9"})
                => (tpc' = "loop" /\ result' = <<>>)]_vars

\* C16 witness: a trial of 19 characters that starts with '0' is about to be dropped.
C16_Witness ==
    /\ tpc = "loop"
    /\ Len(result) = 19
    /\ result[1] = "0"

\* the chat responses that have arrived and hold a fetch identifier
Holding == {i \in 1..Len(parsed) : parsed[i].fetch_id # NoFetch}

\* C20: with prompt() calls that overlap, last_fetch_id is the fetch identifier of
\* the chat response that arrived last among those that hold one, whichever call was
\* entered last, and is empty while there is none.
C20_LastParsedWins ==
    IF Holding = {} THEN last_fetch_id = ""
    ELSE \E i \in Holding :
            /\ \A j \in Holding : j <= i
            /\ last_fetch_id = parsed[i].fetch_id

\* C20 witness: call 1 was entered before call 2, both found the cookies empty and
\* sent a landing, a token and a chat request each, and the chat response of call 1
\* arrived last: last_fetch_id is the identifier of call 1, not the one of call 2.
C20_Witness ==
    /\ started = <<1, 2>>
    /\ parsed = <<[call |-> 2, fetch_id |-> "fetch-1"], [call |-> 1, fetch_id |-> "fetch-2"]>>
    /\ Kinds(calls[1].reqs) = <<"landing", "token", "chat">>
    /\ Kinds(calls[2].reqs) = <<"landing", "token", "chat">>
    /\ calls[1].ret = RetText("reply-2")
    /\ calls[2].ret = RetText("reply-1")
    /\ last_fetch_id = "fetch-2"

====
